---- MODULE Spec2Model ----
(***************************************************************************)
(* seo-mcp-server: the stdio proxy of src/src/seo_mcp_server/client.py.    *)
(*                                                                         *)
(* The process reads newline-delimited JSON-RPC requests from stdin,       *)
(* dispatches them (StdioMCPClient.handle_request), proxies tool calls to  *)
(* the backend over HTTP, and writes one JSON frame per line to stdout.    *)
(*                                                                         *)
(* Representation of values                                                *)
(*   - a Python dict used only through key lookup is a TLA+ record whose   *)
(*     DOMAIN is the set of keys present ("id" in request  ==              *)
(*     "id" \in DOMAIN request);                                           *)
(*   - a JSON value whose type the code depends on is tagged:              *)
(*     [t |-> "dict", v |-> record], [t |-> "list", v |-> sequence],       *)
(*     [t |-> "int", v |-> n];                                             *)
(*   - the tool catalog, whose iteration order the code exposes, is        *)
(*     [t |-> "dict", items |-> sequence of [k |-> key, val |-> value]];   *)
(*   - an input line is [enc, syntax, value]: whether its bytes decode as  *)
(*     UTF-8, whether the text is JSON, and the value it denotes;          *)
(*   - an HTTP answer is an exception raised by the call, or a response    *)
(*     with a status code and a body [syntax, value].                      *)
(***************************************************************************)
EXTENDS Integers, Sequences, FiniteSets, TLC

VARIABLES
    env,          \* os.environ: the value of SEOMCP_API_KEY, or None
    pc,           \* position of main(): start, read, dispatch, get, post, exited
    api_key,      \* client.api_key
    tools,        \* client.tools, the memoized tool registry
    eof,          \* stdin has been closed by the peer
    line,         \* the value last returned by reader.readline()
    request,      \* the parsed request being handled
    stdout,       \* the frames written to standard output, in order
    http,         \* the HTTP calls issued to the backend, in order
    replies,      \* what the backend answered to them, in order
    nlines,       \* number of non-empty lines read so far
    exit_status,  \* <<status>> once the process has exited, <<>> while it runs
    store,        \* Firestore: for each uid, the documents of users/{uid}/api_keys
    last          \* the last invocation of a key-management function and its answer

proxy == <<env, pc, api_key, tools, eof, line, request, stdout, http, replies, nlines, exit_status>>
vars == <<env, pc, api_key, tools, eof, line, request, stdout, http, replies, nlines, exit_status,
          store, last>>

-----------------------------------------------------------------------------
(* Bounds *)

MaxLines == 2

-----------------------------------------------------------------------------
(* Generic values *)

None == "<None>"

Obj(r) == [t |-> "dict", v |-> r]
Arr(s) == [t |-> "list", v |-> s]
Num(n) == [t |-> "int", v |-> n]
Catalog(s) == [t |-> "dict", items |-> s]

EmptyDict == Obj(<<>>)

\* a memo test that never finds the registry loaded
Truthy_Never(x) == FALSE

\* Python truthiness of a tagged value
Truthy(x) ==
    CASE x.t = "dict" /\ "items" \in DOMAIN x -> Len(x.items) > 0
      [] x.t = "dict" -> DOMAIN x.v # {}
      [] x.t = "list" -> Len(x.v) > 0
      [] x.t = "int" -> x.v # 0
      [] OTHER -> FALSE

\* dict.get(key, default) on a record
Get(d, key, default) == IF key \in DOMAIN d THEN d[key] ELSE default

\* outcome of a computation that may raise
Ok(val) == [exc |-> FALSE, val |-> val]
Raise(msg) == [exc |-> TRUE, msg |-> msg]

BACKEND_URL == "https://api.seomcp.run"

-----------------------------------------------------------------------------
(* The built-in catalog: the dict literal of initialize_tools *)

StringType == [type |-> "string"]

Schema(properties, required) ==
    [type |-> "object", properties |-> properties, required |-> required]

Descriptor(name, description, inputSchema) ==
    [name |-> name, description |-> description, inputSchema |-> inputSchema]

Entry(d) == [k |-> d.name, val |-> d]

AnalyzeSerp ==
    Descriptor("analyze_serp", "Analyze SERP and derive patterns",
               Schema([keyword |-> StringType], <<"keyword">>))

ResearchPerplexity ==
    Descriptor("research_perplexity", "Research using Perplexity API",
               Schema([keyword |-> StringType, patterns |-> StringType],
                      <<"keyword", "patterns">>))

BrainstormOutline ==
    Descriptor("brainstorm_outline", "Generate article outline",
               Schema([patterns |-> StringType, facts |-> StringType],
                      <<"patterns", "facts">>))

GatherDetails ==
    Descriptor("gather_details", "Gather details for outline",
               Schema([outline |-> StringType], <<"outline">>))

GenerateArticle ==
    Descriptor("generate_article", "Generate article draft",
               Schema([outline |-> StringType, facts |-> StringType,
                       details |-> StringType],
                      <<"outline", "facts", "details">>))

EmbedLinks ==
    Descriptor("embed_links", "Embed links in article",
               Schema([article |-> StringType, research |-> StringType],
                      <<"article", "research">>))

FallbackTools ==
    Catalog(<< Entry(AnalyzeSerp), Entry(ResearchPerplexity),
               Entry(BrainstormOutline), Entry(GatherDetails),
               Entry(GenerateArticle), Entry(EmbedLinks) >>)

-----------------------------------------------------------------------------
(* Inputs: the lines the peer may send on stdin *)

EmptyBytes == [bytes |-> "empty"]
UndecodableLine == [bytes |-> "invalid_utf8"]
\* a line longer than the limit of asyncio.StreamReader() (64 KiB)
OverlongLine == [bytes |-> "overlong"]
TextLine(syntax) == [bytes |-> "utf8", syntax |-> syntax]
JsonLine(value) == [bytes |-> "utf8", syntax |-> "ok", value |-> value]

Methods == {"initialize", "resources/list", "tools/list", "tools/call", "frobnicate"}
KnownMethods == {"initialize", "resources/list", "tools/list", "tools/call"}
Ids == {7}

\* the members a request object may have; Absent is the member left out
Absent == <<>>
Method(m) == "method" :> m
Params(p) == "params" :> p
Id(i) == "id" :> i

SerpArguments == Obj([keyword |-> "x"])
FullParams == Obj([name |-> "analyze_serp", arguments |-> SerpArguments])

\* params of a tools/call request
CallParams ==
    { FullParams,
      Obj([name |-> "analyze_serp"]),
      Obj([arguments |-> SerpArguments]),
      Obj(<<>>) }

OptionalIds == { Id(i) : i \in Ids } \cup { Absent }

\* requests conforming to {method, params?: object, id?}; a request may also
\* lack its method
ConformingRequests ==
    { Obj(m @@ i) : m \in { Method(n) : n \in Methods \ {"tools/call"} } \cup { Absent },
                    i \in OptionalIds }
    \cup { Obj(Method("tools/call") @@ Params(FullParams) @@ i) : i \in OptionalIds }
    \cup { Obj(Method("tools/call") @@ Params(p) @@ Id(7)) : p \in CallParams }
    \cup { Obj(Method("tools/call") @@ Id(7)) }

\* a JSON object whose params is not an object
BadParamsRequest ==
    Obj([method |-> "tools/call", params |-> Arr(<<>>), id |-> 7])

Lines ==
    { UndecodableLine, OverlongLine, TextLine("bad"), JsonLine(Num(42)),
      JsonLine(BadParamsRequest) }
    \cup { JsonLine(r) : r \in ConformingRequests }

-----------------------------------------------------------------------------
(* Inputs: what the backend may answer to an HTTP call *)

Exception(type, msg) == [kind |-> "exception", type |-> type, msg |-> msg]
Response(status_code, body) ==
    [kind |-> "response", status_code |-> status_code, body |-> body]

NotJson == [syntax |-> "bad"]
Json(value) == [syntax |-> "ok", value |-> value]

Failures ==
    { Exception("ReadTimeout", "The read operation timed out"),
      Exception("ConnectError", "All connection attempts failed"),
      Response(500, NotJson) }

RemoteSearch ==
    Descriptor("remote_search", "Search remotely", Schema(<<>>, <<>>))
RemoteCatalog == Catalog(<< Entry(RemoteSearch), Entry(AnalyzeSerp) >>)

\* a descriptor without its description
PartialCatalog ==
    Catalog(<< [k |-> "remote_search",
                val |-> [name |-> "remote_search", inputSchema |-> Schema(<<>>, <<>>)]] >>)

GetAnswers ==
    Failures
    \cup { Response(200, NotJson),
           Response(200, Json(Arr(<<>>))),
           Response(200, Json(Obj(<<>>))),
           Response(200, Json(Obj([tools |-> Catalog(<<>>)]))),
           Response(200, Json(Obj([tools |-> RemoteCatalog]))),
           Response(200, Json(Obj([tools |-> PartialCatalog]))),
           Response(200, Json(Obj([tools |-> Arr(<<"remote_search">>)]))) }

PostAnswers ==
    Failures
    \cup { Response(200, NotJson),
           Response(200, Json(Arr(<<>>))),
           Response(200, Json(Obj([result |-> "ok"]))),
           Response(200, Json(Obj(<<>>))) }

-----------------------------------------------------------------------------
(* StdioMCPClient: the backend calls *)

Authorization(key) == [Authorization |-> "Bearer " \o key]

\* client.get(f"{backend_url}/mcp/tools", headers=...)
ToolsGet(key) ==
    [verb |-> "GET", url |-> BACKEND_URL \o "/mcp/tools", headers |-> Authorization(key)]

\* client.post(f"{backend_url}/mcp/call", headers=..., json={"tool":..., "arguments":...})
CallPost(key, name, arguments) ==
    [verb |-> "POST", url |-> BACKEND_URL \o "/mcp/call", headers |-> Authorization(key),
     json |-> [tool |-> name, arguments |-> arguments]]

\* resp.json(): raises when the body is not JSON
RespJson(resp) ==
    IF resp.body.syntax = "ok"
    THEN Ok(resp.body.value)
    ELSE Raise("Expecting value: line 1 column 1 (char 0)")

\* x.get(key, default): only a dict has .get
DictGet(x, key, default) ==
    IF x.t = "dict"
    THEN Ok(Get(x.v, key, default))
    ELSE Raise("'" \o x.t \o "' object has no attribute 'get'")

\* json.dumps({"error": msg}, ensure_ascii=False)
JsonDumpsError(msg) == "{\"error\": \"" \o msg \o "\"}"

\* initialize_tools without its fallback: a failed fetch leaves the registry empty
InitializeTools_NoFallback(ans) ==
    IF ans.kind = "response" /\ ans.status_code = 200
    THEN LET body == RespJson(ans)
             got == IF body.exc THEN body ELSE DictGet(body.val, "tools", Catalog(<<>>))
         IN IF got.exc THEN Catalog(<<>>) ELSE got.val
    ELSE Catalog(<<>>)

\* initialize_tools once the GET has been answered: the value assigned to
\* self.tools.  An exception raised by the call, by resp.json() or by .get()
\* is caught and leads to the fallback; so does a status other than 200.
InitializeTools(ans) ==
    IF ans.kind = "response" /\ ans.status_code = 200
    THEN LET body == RespJson(ans)
             got == IF body.exc THEN body ELSE DictGet(body.val, "tools", Catalog(<<>>))
         IN IF got.exc THEN FallbackTools ELSE got.val
    ELSE FallbackTools

\* call_tool with resp.json()["result"] read as .get("result"): None when absent
CallTool_NoDefault(ans) ==
    IF ans.kind = "exception"
    THEN JsonDumpsError(ans.msg)
    ELSE IF ans.status_code = 200
         THEN LET body == RespJson(ans)
                  got == IF body.exc THEN body ELSE DictGet(body.val, "result", None)
              IN IF got.exc THEN JsonDumpsError(got.msg) ELSE got.val
         ELSE JsonDumpsError("Backend error: " \o ToString(ans.status_code))

\* call_tool returning the failure text itself instead of a JSON document
CallTool_RawMessage(ans) ==
    IF ans.kind = "exception"
    THEN ans.msg
    ELSE IF ans.status_code = 200
         THEN LET body == RespJson(ans)
                  got == IF body.exc THEN body ELSE DictGet(body.val, "result", "")
              IN IF got.exc THEN got.msg ELSE got.val
         ELSE "Backend error: " \o ToString(ans.status_code)

\* call_tool once the POST has been answered: the string returned
CallTool(ans) ==
    IF ans.kind = "exception"
    THEN JsonDumpsError(ans.msg)
    ELSE IF ans.status_code = 200
         THEN LET body == RespJson(ans)
                  got == IF body.exc THEN body ELSE DictGet(body.val, "result", "")
              IN IF got.exc THEN JsonDumpsError(got.msg) ELSE got.val
         ELSE JsonDumpsError("Backend error: " \o ToString(ans.status_code))

-----------------------------------------------------------------------------
(* StdioMCPClient.handle_request: the responses *)

\* the handshake announcing another protocol revision
Handshake_OldProtocol ==
    [result |-> [protocolVersion |-> "2024-10-07",
                 capabilities |-> [tools |-> <<>>],
                 serverInfo |-> [name |-> "seo-mcp-server", version |-> "0.1.0"]]]

Handshake ==
    [result |-> [protocolVersion |-> "2024-11-05",
                 capabilities |-> [tools |-> <<>>],
                 serverInfo |-> [name |-> "seo-mcp-server", version |-> "0.1.0"]]]

ResourcesList == [result |-> [resources |-> <<>>]]

\* the unknown-method error with the code of another JSON-RPC error
MethodNotFound_InvalidRequest == [error |-> [code |-> -32600, message |-> "Invalid Request"]]

MethodNotFound == [error |-> [code |-> -32601, message |-> "Method not found"]]

\* the first of t["name"], t["description"], t["inputSchema"] that raises KeyError
MissingKey(t) ==
    IF "name" \notin DOMAIN t THEN "name"
    ELSE IF "description" \notin DOMAIN t THEN "description"
    ELSE IF "inputSchema" \notin DOMAIN t THEN "inputSchema"
    ELSE None

\* the tools/list response built from the registry r; the comprehension
\* raises on r.values() when r is no dict and on the first bad descriptor
ToolsList(r) ==
    IF r.t # "dict"
    THEN Raise("'" \o r.t \o "' object has no attribute 'values'")
    ELSE LET bad == { i \in 1..Len(r.items) : MissingKey(r.items[i].val) # None }
         IN IF bad # {}
            THEN Raise("'" \o MissingKey(r.items[CHOOSE i \in bad : \A j \in bad : i <= j].val) \o "'")
            ELSE Ok([result |->
                      [tools |-> [i \in 1..Len(r.items) |->
                                    [name |-> r.items[i].val.name,
                                     description |-> r.items[i].val.description,
                                     inputSchema |-> r.items[i].val.inputSchema]]]])

ToolResult(text) == [result |-> [content |-> << [type |-> "text", text |-> text] >>]]

\* what handle_request returns, or raises, after initialize_tools has returned r
AfterInitializeTools(method, r) ==
    IF method = "initialize" THEN Ok(Handshake) ELSE ToolsList(r)

-----------------------------------------------------------------------------
(* main: the frames *)

\* os.environ.get(key) with the default dropped
EnvOrDefault_NoDefault(value, default) == value

EnvOrDefault(value, default) == IF value = None THEN default ELSE value

ErrorFrame(code, message) ==
    [jsonrpc |-> "2.0", error |-> [code |-> code, message |-> message]]

MissingKeyFrame == ErrorFrame(-32700, "SEOMCP_API_KEY not set")
ParseErrorFrame == ErrorFrame(-32700, "Parse error")
\* the -32603 frame with a fixed text in place of str(e)
InternalErrorFrame_Generic(message) == ErrorFrame(-32603, "Internal error")

InternalErrorFrame(message) == ErrorFrame(-32603, message)

\* the envelope without its jsonrpc marker
Envelope_NoMarker(req, response) ==
    (IF "id" \in DOMAIN req.v THEN "id" :> req.v["id"] ELSE <<>>) @@ response

\* if "id" in request: response["id"] = request["id"]; response["jsonrpc"] = "2.0"
Envelope(req, response) ==
    ("jsonrpc" :> "2.0")
    @@ (IF "id" \in DOMAIN req.v THEN "id" :> req.v["id"] ELSE <<>>)
    @@ response

\* the frame main writes for the outcome of handle_request(req)
FrameOf(req, outcome) ==
    IF outcome.exc THEN InternalErrorFrame(outcome.msg) ELSE Envelope(req, outcome.val)

-----------------------------------------------------------------------------
(* firebase/functions/main.py: the key-management functions.                *)
(* Text that the code slices (the Authorization header, the API key) is a   *)
(* sequence of characters; a datetime is a number of days.                  *)

BearerPrefix == <<"B", "e", "a", "r", "e", "r", " ">>
TokenOffset == 7
KeyIdLen == 20
ExpiryDays == 90

StartsWith(text, prefix) ==
    Len(text) >= Len(prefix) /\ SubSeq(text, 1, Len(prefix)) = prefix

\* datetime.isoformat()
IsoFormat(t) == "day " \o ToString(t)

Uids == {"alice", "bob"}
Days == {0, 1}

\* uuid.uuid4().hex, in ascending order
UuidHex ==
    << <<"1", "b", "9", "d", "6", "b", "c", "d", "0", "b", "b", "f", "d", "4", "b", "2", "d", "9", "b", "5", "d", "a", "b", "8", "d", "f", "b", "b", "d", "4", "b", "e">>,
       <<"9", "c", "4", "f", "2", "a", "7", "e", "3", "d", "8", "8", "4", "1", "c", "6", "a", "5", "b", "0", "e", "2", "f", "1", "d", "7", "c", "3", "a", "9", "b", "4">> >>

\* auth.verify_id_token(id_token): the decoded claims, or the exception raised.
\* Whatever the token, the verifier itself can fail to fetch the certificates.
RaiseAs(type, msg) == [exc |-> TRUE, type |-> type, msg |-> msg]
VerifyIdToken(id_token) ==
    { RaiseAs("CertificateFetchError", "Failed to fetch public key certificates") }
    \cup CASE id_token = <<"a">> -> { Ok([uid |-> "alice", sub |-> "alice"]) }
           [] id_token = <<"b">> -> { Ok([uid |-> "bob", sub |-> "bob"]) }
           [] id_token = <<"n">> -> { Ok([iss |-> "https://securetoken.google.com/seomcp"]) }
           [] id_token = <<"o">> -> { RaiseAs("ExpiredIdTokenError", "Token expired") }
           [] OTHER -> { RaiseAs("InvalidIdTokenError", "Could not verify token signature") }

\* ExpiredIdTokenError is a subclass of InvalidIdTokenError
IsInvalidIdTokenError(type) == type \in {"InvalidIdTokenError", "ExpiredIdTokenError"}

HttpsResponse(body, status) ==
    [body |-> body, status |-> status, mimetype |-> "application/json"]

Unauthorized(message) == HttpsResponse([error |-> message], 401)

ErrorResponse(message, code) == HttpsResponse([error |-> message], code)

\* req.headers.get("Authorization", "")
AuthHeader(req) == Get(req.headers, "Authorization", <<>>)

\* auth_header[7:]
IdToken(req) == SubSeq(AuthHeader(req), TokenOffset + 1, Len(AuthHeader(req)))

\* _verify_user, `verify` being the outcome of auth.verify_id_token
VerifyUser(req, verify) ==
    IF ~StartsWith(AuthHeader(req), BearerPrefix)
    THEN RaiseAs("InvalidIdTokenError", "Missing bearer token")
    ELSE IF verify.exc THEN verify
    ELSE LET uid == Get(verify.val, "uid", None)
         IN IF uid \in {None, ""}
            THEN RaiseAs("InvalidIdTokenError", "Invalid token")
            ELSE Ok(uid)

\* the outcomes of the verifier that _verify_user can meet for req
Verdicts(req) ==
    IF StartsWith(AuthHeader(req), BearerPrefix)
    THEN { <<v>> : v \in VerifyIdToken(IdToken(req)) }
    ELSE { <<>> }

\* the two except clauses of each function
Catch(e) ==
    IF IsInvalidIdTokenError(e.type)
    THEN Unauthorized("Invalid token")
    ELSE ErrorResponse(e.msg, 500)

\* a Firestore call failing
Unavailable == RaiseAs("ServiceUnavailable", "503 failed to connect to all addresses")

\* document(id).set(data), document(id).delete() and stream() on a collection
DocSet(coll, id, data) == {d \in coll : d.id # id} \cup {[id |-> id, data |-> data]}
DocDelete(coll, id) == {d \in coll : d.id # id}
KeyIdOrder == [k \in 1..Len(UuidHex) |-> SubSeq(<<"s", "k", "_">> \o UuidHex[k], 1, KeyIdLen)]
Stream(coll) ==
    LET ids == SelectSeq(KeyIdOrder, LAMBDA i : \E d \in coll : d.id = i)
    IN [k \in 1..Len(ids) |-> CHOOSE d \in coll : d.id = ids[k]]

\* the entry list_api_keys builds for one document
KeyEntry(doc) ==
    [id |-> doc.id,
     key |-> SubSeq(Get(doc.data, "key", <<>>), 1, KeyIdLen) \o <<".", ".", ".">>,
     created_at |-> IF "created_at" \in DOMAIN doc.data
                    THEN IsoFormat(doc.data.created_at) ELSE None,
     expires_at |-> IF "expires_at" \in DOMAIN doc.data
                    THEN IsoFormat(doc.data.expires_at) ELSE None,
     calls_count |-> Get(doc.data, "calls_count", 0)]

Bearing(token) == [Authorization |-> BearerPrefix \o token]
Headers ==
    { <<>>,
      [Authorization |-> <<"B", "a", "s", "i", "c", " ", "a">>],
      Bearing(<<"a">>), Bearing(<<"b">>), Bearing(<<"n">>), Bearing(<<"o">>), Bearing(<<"x">>) }
Args == { <<>>, [id |-> <<>>], [id |-> KeyIdOrder[1]] }

NoInvocation == [fn |-> "none"]

\* what one invocation leaves behind: the request, the verifier's outcome if
\* it was called, the response, and the Firestore calls made
Invoked(fn, req, verdict, response, ops) ==
    last' = [fn |-> fn, req |-> req, verify |-> verdict, response |-> response, ops |-> ops]

\* delete_api_key looking at the `id` argument before the caller's identity
delete_api_key_IdFirst ==
    /\ \E headers \in Headers, args \in Args :
         LET req == [headers |-> headers, args |-> args]
             key_id == Get(args, "id", <<>>)
         IN \E verdict \in Verdicts(req), db_ok \in BOOLEAN :
              LET uid == VerifyUser(req, IF verdict = <<>> THEN Unavailable ELSE verdict[1])
              IN IF Len(key_id) = 0
                 THEN /\ Invoked("delete_api_key", req, <<>>,
                                 ErrorResponse("Missing key id", 400), <<>>)
                      /\ UNCHANGED store
                 ELSE IF uid.exc
                 THEN /\ Invoked("delete_api_key", req, verdict, Catch(uid), <<>>)
                      /\ UNCHANGED store
                 ELSE IF ~db_ok
                 THEN /\ Invoked("delete_api_key", req, verdict, Catch(Unavailable),
                                 <<[op |-> "delete", uid |-> uid.val, id |-> key_id]>>)
                      /\ UNCHANGED store
                 ELSE /\ store' = [store EXCEPT ![uid.val] = DocDelete(@, key_id)]
                      /\ Invoked("delete_api_key", req, verdict,
                                 HttpsResponse([message |-> "Key deleted"], 200),
                                 <<[op |-> "delete", uid |-> uid.val, id |-> key_id]>>)
    /\ UNCHANGED proxy

generate_api_key ==
    /\ \E headers \in Headers :
         LET req == [headers |-> headers, args |-> <<>>]
         IN \E verdict \in Verdicts(req), k \in DOMAIN UuidHex, now \in Days, db_ok \in BOOLEAN :
              LET uid == VerifyUser(req, IF verdict = <<>> THEN Unavailable ELSE verdict[1])
                  new_key == <<"s", "k", "_">> \o UuidHex[k]
                  expires_at == now + ExpiryDays
                  key_id == SubSeq(new_key, 1, KeyIdLen)
                  data == [key |-> new_key, created_at |-> now, expires_at |-> expires_at,
                           last_used |-> None, calls_count |-> 0]
              IN IF uid.exc
                 THEN /\ Invoked("generate_api_key", req, verdict, Catch(uid), <<>>)
                      /\ UNCHANGED store
                 ELSE IF ~db_ok
                 THEN /\ Invoked("generate_api_key", req, verdict, Catch(Unavailable),
                                 <<[op |-> "set", uid |-> uid.val, id |-> key_id]>>)
                      /\ UNCHANGED store
                 ELSE /\ store' = [store EXCEPT ![uid.val] = DocSet(@, key_id, data)]
                      /\ Invoked("generate_api_key", req, verdict,
                                 HttpsResponse([api_key |-> new_key,
                                                expires_at |-> IsoFormat(expires_at)], 200),
                                 <<[op |-> "set", uid |-> uid.val, id |-> key_id]>>)
    /\ UNCHANGED proxy

list_api_keys ==
    /\ \E headers \in Headers :
         LET req == [headers |-> headers, args |-> <<>>]
         IN \E verdict \in Verdicts(req), db_ok \in BOOLEAN :
              LET uid == VerifyUser(req, IF verdict = <<>> THEN Unavailable ELSE verdict[1])
              IN IF uid.exc
                 THEN Invoked("list_api_keys", req, verdict, Catch(uid), <<>>)
                 ELSE IF ~db_ok
                 THEN Invoked("list_api_keys", req, verdict, Catch(Unavailable),
                              <<[op |-> "stream", uid |-> uid.val]>>)
                 ELSE LET docs == Stream(store[uid.val])
                          keys == [i \in 1..Len(docs) |-> KeyEntry(docs[i])]
                      IN Invoked("list_api_keys", req, verdict,
                                 HttpsResponse([keys |-> keys], 200),
                                 <<[op |-> "stream", uid |-> uid.val]>>)
    /\ UNCHANGED store
    /\ UNCHANGED proxy

delete_api_key ==
    /\ \E headers \in Headers, args \in Args :
         LET req == [headers |-> headers, args |-> args]
             \* req.args.get("id"): an absent `id` is as falsy as an empty one
             key_id == Get(args, "id", <<>>)
         IN \E verdict \in Verdicts(req), db_ok \in BOOLEAN :
              LET uid == VerifyUser(req, IF verdict = <<>> THEN Unavailable ELSE verdict[1])
              IN IF uid.exc
                 THEN /\ Invoked("delete_api_key", req, verdict, Catch(uid), <<>>)
                      /\ UNCHANGED store
                 ELSE IF Len(key_id) = 0
                 THEN /\ Invoked("delete_api_key", req, verdict,
                                 ErrorResponse("Missing key id", 400), <<>>)
                      /\ UNCHANGED store
                 ELSE IF ~db_ok
                 THEN /\ Invoked("delete_api_key", req, verdict, Catch(Unavailable),
                                 <<[op |-> "delete", uid |-> uid.val, id |-> key_id]>>)
                      /\ UNCHANGED store
                 ELSE /\ store' = [store EXCEPT ![uid.val] = DocDelete(@, key_id)]
                      /\ Invoked("delete_api_key", req, verdict,
                                 HttpsResponse([message |-> "Key deleted"], 200),
                                 <<[op |-> "delete", uid |-> uid.val, id |-> key_id]>>)
    /\ UNCHANGED proxy

-----------------------------------------------------------------------------
Init ==
    /\ env \in {None, "", "sk_test"}
    /\ pc = "start"
    /\ api_key = ""
    /\ tools = Catalog(<<>>)
    /\ eof = FALSE
    /\ line = [bytes |-> "none"]
    /\ request = [t |-> "none"]
    /\ stdout = <<>>
    /\ http = <<>>
    /\ replies = <<>>
    /\ nlines = 0
    /\ exit_status = <<>>
    /\ store = [uid \in Uids |-> {}]
    /\ last = NoInvocation

\* main up to the loop: read the environment, refuse to start without a key
Startup ==
    /\ pc = "start"
    /\ api_key' = EnvOrDefault(env, "")
    /\ IF api_key' = ""
       THEN /\ stdout' = Append(stdout, MissingKeyFrame)
            /\ exit_status' = <<1>>
            /\ pc' = "exited"
       ELSE /\ pc' = "read"
            /\ UNCHANGED <<stdout, exit_status>>
    /\ UNCHANGED <<store, last, env, tools, eof, line, request, http, replies, nlines>>

\* the peer closes its end of the pipe
CloseStdin ==
    /\ pc # "exited"
    /\ ~eof
    /\ eof' = TRUE
    /\ UNCHANGED <<store, last, env, pc, api_key, tools, line, request, stdout, http, replies, nlines, exit_status>>

\* the loop reading the next line while a backend call is still awaited, as
\* if each request were handled in a task of its own
ReadLine_Eager ==
    /\ pc \in {"read", "get", "post"}
    /\ IF eof
       THEN /\ line' = EmptyBytes
            /\ UNCHANGED <<pc, request, stdout, nlines, exit_status>>
       ELSE /\ nlines < MaxLines
            /\ nlines' = nlines + 1
            /\ \E l \in Lines :
                 /\ line' = l
                 /\ CASE l.bytes = "overlong" ->
                           /\ pc' = "exited"
                           /\ exit_status' = <<1>>
                           /\ UNCHANGED <<request, stdout>>
                      [] l.bytes = "invalid_utf8" ->
                           /\ stdout' = Append(stdout, InternalErrorFrame(
                                 "'utf-8' codec can't decode byte 0xff in position 0: invalid start byte"))
                           /\ UNCHANGED <<pc, request, exit_status>>
                      [] l.bytes = "utf8" /\ l.syntax = "bad" ->
                           /\ stdout' = Append(stdout, ParseErrorFrame)
                           /\ UNCHANGED <<pc, request, exit_status>>
                      [] OTHER ->
                           /\ request' = l.value
                           /\ pc' = "dispatch"
                           /\ UNCHANGED <<stdout, exit_status>>
    /\ UNCHANGED <<store, last, env, api_key, tools, eof, http, replies>>

\* the loop with `if not line: break`: main() returns at end of input
ReadLine_BreakOnEof ==
    /\ pc = "read"
    /\ IF eof
       THEN /\ line' = EmptyBytes
            /\ pc' = "exited"
            /\ exit_status' = <<0>>
            /\ UNCHANGED <<request, stdout, nlines>>
       ELSE /\ nlines < MaxLines
            /\ nlines' = nlines + 1
            /\ \E l \in Lines :
                 /\ line' = l
                 /\ CASE l.bytes = "overlong" ->
                           /\ pc' = "exited"
                           /\ exit_status' = <<1>>
                           /\ UNCHANGED <<request, stdout>>
                      [] l.bytes = "invalid_utf8" ->
                           /\ stdout' = Append(stdout, InternalErrorFrame(
                                 "'utf-8' codec can't decode byte 0xff in position 0: invalid start byte"))
                           /\ UNCHANGED <<pc, request, exit_status>>
                      [] l.bytes = "utf8" /\ l.syntax = "bad" ->
                           /\ stdout' = Append(stdout, ParseErrorFrame)
                           /\ UNCHANGED <<pc, request, exit_status>>
                      [] OTHER ->
                           /\ request' = l.value
                           /\ pc' = "dispatch"
                           /\ UNCHANGED <<stdout, exit_status>>
    /\ UNCHANGED <<store, last, env, api_key, tools, eof, http, replies>>

\* line = await reader.readline(), then line.decode() and json.loads().
\* readline() is outside the try block: the ValueError it raises for a line
\* over the reader's limit ends main(), and asyncio.run() ends the process.
ReadLine ==
    /\ pc = "read"
    /\ IF eof
       THEN /\ line' = EmptyBytes
            /\ UNCHANGED <<pc, request, stdout, nlines, exit_status>>
       ELSE /\ nlines < MaxLines
            /\ nlines' = nlines + 1
            /\ \E l \in Lines :
                 /\ line' = l
                 /\ CASE l.bytes = "overlong" ->
                           /\ pc' = "exited"
                           /\ exit_status' = <<1>>
                           /\ UNCHANGED <<request, stdout>>
                      [] l.bytes = "invalid_utf8" ->
                           /\ stdout' = Append(stdout, InternalErrorFrame(
                                 "'utf-8' codec can't decode byte 0xff in position 0: invalid start byte"))
                           /\ UNCHANGED <<pc, request, exit_status>>
                      [] l.bytes = "utf8" /\ l.syntax = "bad" ->
                           /\ stdout' = Append(stdout, ParseErrorFrame)
                           /\ UNCHANGED <<pc, request, exit_status>>
                      [] OTHER ->
                           /\ request' = l.value
                           /\ pc' = "dispatch"
                           /\ UNCHANGED <<stdout, exit_status>>
    /\ UNCHANGED <<store, last, env, api_key, tools, eof, http, replies>>

\* write the frame of a finished handle_request and go back to reading
Finish(outcome) ==
    /\ stdout' = Append(stdout, FrameOf(request, outcome))
    /\ pc' = "read"

\* handle_request up to its first await
HandleRequest ==
    /\ pc = "dispatch"
    /\ IF request.t # "dict"
       THEN /\ Finish(Raise("'" \o request.t \o "' object has no attribute 'get'"))
            /\ UNCHANGED <<http>>
       ELSE LET method == Get(request.v, "method", None)
                params == Get(request.v, "params", EmptyDict)
            IN CASE method \in {"initialize", "tools/list"} ->
                      IF Truthy(tools)
                      THEN /\ Finish(AfterInitializeTools(method, tools))
                           /\ UNCHANGED <<http>>
                      ELSE /\ http' = Append(http, ToolsGet(api_key))
                           /\ pc' = "get"
                           /\ UNCHANGED <<stdout>>
                 [] method = "resources/list" ->
                      /\ Finish(Ok(ResourcesList))
                      /\ UNCHANGED <<http>>
                 [] method = "tools/call" ->
                      LET name == DictGet(params, "name", None)
                      IN IF name.exc
                         THEN /\ Finish(name)
                              /\ UNCHANGED <<http>>
                         ELSE /\ http' = Append(http,
                                    CallPost(api_key, name.val, Get(params.v, "arguments", EmptyDict)))
                              /\ pc' = "post"
                              /\ UNCHANGED <<stdout>>
                 [] OTHER ->
                      /\ Finish(Ok(MethodNotFound))
                      /\ UNCHANGED <<http>>
    /\ UNCHANGED <<store, last, env, api_key, tools, eof, line, request, replies, nlines, exit_status>>

\* initialize_tools repeating the GET after a failed attempt
ToolsFetched_Retry ==
    /\ pc = "get"
    /\ \E ans \in GetAnswers :
         /\ replies' = Append(replies, ans)
         /\ IF ans \in Failures /\ Len(http) < 2 * MaxLines
            THEN /\ http' = Append(http, ToolsGet(api_key))
                 /\ UNCHANGED <<tools, stdout, pc>>
            ELSE /\ tools' = InitializeTools(ans)
                 /\ Finish(AfterInitializeTools(request.v["method"], tools'))
                 /\ UNCHANGED http
    /\ UNCHANGED <<store, last, env, api_key, eof, line, request, nlines, exit_status>>

\* the GET of initialize_tools is answered; handle_request runs to its end
ToolsFetched ==
    /\ pc = "get"
    /\ \E ans \in GetAnswers :
         /\ replies' = Append(replies, ans)
         /\ tools' = InitializeTools(ans)
         /\ Finish(AfterInitializeTools(request.v["method"], tools'))
    /\ UNCHANGED <<store, last, env, api_key, eof, line, request, http, nlines, exit_status>>

\* call_tool loading the built-in catalog into an empty registry on its way
ToolCalled_LoadsRegistry ==
    /\ pc = "post"
    /\ \E ans \in PostAnswers :
         /\ replies' = Append(replies, ans)
         /\ Finish(Ok(ToolResult(CallTool(ans))))
    /\ tools' = IF Truthy(tools) THEN tools ELSE FallbackTools
    /\ UNCHANGED <<store, last, env, api_key, eof, line, request, http, nlines, exit_status>>

\* the POST of call_tool is answered; handle_request runs to its end
ToolCalled ==
    /\ pc = "post"
    /\ \E ans \in PostAnswers :
         /\ replies' = Append(replies, ans)
         /\ Finish(Ok(ToolResult(CallTool(ans))))
    /\ UNCHANGED <<store, last, env, api_key, tools, eof, line, request, http, nlines, exit_status>>

Next ==
    \/ Startup
    \/ CloseStdin
    \/ ReadLine
    \/ HandleRequest
    \/ ToolsFetched
    \/ ToolCalled

Spec == Init /\ [][Next]_vars

\* the key-management functions, each invoked any number of times
KeyNext ==
    \/ generate_api_key
    \/ list_api_keys
    \/ delete_api_key

\* the functions are deployed apart from the proxy, which stays where it starts
KeyInit == Init /\ env = None

KeySpec == KeyInit /\ [][KeyNext]_vars

-----------------------------------------------------------------------------
(* Vocabulary of the properties *)

Last(s) == s[Len(s)]

\* l is a line holding a request that conforms to {method, params?: object, id?}
IsRequest(l) == l.bytes = "utf8" /\ l.syntax = "ok" /\ l.value \in ConformingRequests

MethodOf(l) == Get(l.value.v, "method", None)

HasId(l) == "id" \in DOMAIN l.value.v

\* l is a line that is not JSON text
Malformed(l) == l.bytes = "invalid_utf8" \/ (l.bytes = "utf8" /\ l.syntax = "bad")

\* the loop is back at readline() after writing the frame of `line`
Answered == pc = "read" /\ nlines > 0 /\ line # EmptyBytes

\* main takes a step of its own (the peer closing stdin is not one)
Handles(at) == pc = at /\ (pc' # pc \/ nlines' # nlines)

Gets == { i \in DOMAIN http : http[i].verb = "GET" }
Posts == { i \in DOMAIN http : http[i].verb = "POST" }

\* some initialize request has been answered: only initialize yields the handshake
Initialized == \E i \in DOMAIN stdout : stdout[i] \in { Envelope(r, Handshake) : r \in ConformingRequests }

\* the names of the built-in catalog, in the order of the dict literal
BuiltinNames ==
    << "analyze_serp", "research_perplexity", "brainstorm_outline",
       "gather_details", "generate_article", "embed_links" >>

Names(ts) == [i \in 1..Len(ts) |-> ts[i].name]

\* r is a tools/call request whose params name a tool
IsNamedCall(r) ==
    /\ r \in ConformingRequests
    /\ Get(r.v, "method", None) = "tools/call"
    /\ "params" \in DOMAIN r.v
    /\ "name" \in DOMAIN r.v["params"].v

\* json.dumps of {"error": ...} for each failure of the backend call
FailureText(a) ==
    CASE a = Exception("ReadTimeout", "The read operation timed out") ->
             "{\"error\": \"The read operation timed out\"}"
      [] a = Exception("ConnectError", "All connection attempts failed") ->
             "{\"error\": \"All connection attempts failed\"}"
      [] a = Response(500, NotJson) ->
             "{\"error\": \"Backend error: 500\"}"

-----------------------------------------------------------------------------
(* C1: every line holding a conforming request with an id is answered by a *)
(* frame carrying that id, whether the frame is a result or an error.      *)
(* Refuted: a dispatch that raises is answered by a -32603 frame without id *)
C1_IdRoundTrip ==
    (Answered /\ IsRequest(line) /\ HasId(line))
        => ("id" \in DOMAIN Last(stdout) /\ Last(stdout).id = line.value.v["id"])

(* C2: a malformed line is answered by exactly one frame, the -32700 parse *)
(* error, without dispatch or backend call, and the loop reads on.         *)
(* Refuted: a line that is not UTF-8 is answered by a -32603 frame.        *)
C2_MalformedLine ==
    [][ (Handles("read") /\ Malformed(line'))
            => /\ stdout' = Append(stdout, ParseErrorFrame)
               /\ http' = http
               /\ request' = request
               /\ pc' = "read" ]_vars

(* C3: the registry is loaded at most once: at most one GET /mcp/tools is  *)
(* ever issued.  Refuted: a 200 answer with an empty catalog leaves the    *)
(* registry empty, and the next initialize or tools/list fetches again.    *)
C3_FetchedAtMostOnce == Cardinality(Gets) <= 1

(* C4: tools/list handled before any initialize returns a result with a    *)
(* non-empty tool list, whatever the backend answered.  Refuted: a 200     *)
(* answer without tools gives an empty list, a malformed catalog an error. *)
C4_ListBeforeInitialize ==
    (Answered /\ IsRequest(line) /\ MethodOf(line) = "tools/list" /\ ~Initialized)
        => /\ "result" \in DOMAIN Last(stdout)
           /\ Len(Last(stdout).result.tools) > 0

(* C5: when the GET of the registry load fails by timeout, transport error *)
(* or a status other than 200, tools/list returns exactly the six built-in *)
(* tools, in their declared order.                                         *)
C5_FallbackCatalog ==
    [][ (Handles("get") /\ request.v["method"] = "tools/list" /\ Last(replies') \in Failures)
            => /\ Len(stdout') = Len(stdout) + 1
               /\ "result" \in DOMAIN Last(stdout')
               /\ Names(Last(stdout').result.tools) = BuiltinNames
               /\ Last(stdout').result.tools =
                      << AnalyzeSerp, ResearchPerplexity, BrainstormOutline,
                         GatherDetails, GenerateArticle, EmbedLinks >> ]_vars

C5_Witness ==
    /\ Answered /\ IsRequest(line) /\ MethodOf(line) = "tools/list"
    /\ Len(http) = 1 /\ Len(replies) = 1
    /\ replies[1] = Exception("ReadTimeout", "The read operation timed out")
    /\ "result" \in DOMAIN Last(stdout)
    /\ Names(Last(stdout).result.tools) = BuiltinNames

(* C6: a tools/call request with params {name, arguments} issues exactly   *)
(* one POST /mcp/call with body {tool: name, arguments: arguments},        *)
(* arguments being {} when missing; a 200 answer {"result": r} is returned *)
(* as {result: {content: [{type: "text", text: r}]}}, and text is "" when  *)
(* the answer has no result.                                               *)
C6_ToolCall ==
    [][ /\ (Handles("dispatch") /\ IsNamedCall(request))
            => /\ Len(http') = Len(http) + 1
               /\ Last(http').verb = "POST"
               /\ Last(http').url = "https://api.seomcp.run/mcp/call"
               /\ Last(http').json =
                      [tool |-> request.v["params"].v["name"],
                       arguments |-> IF "arguments" \in DOMAIN request.v["params"].v
                                     THEN request.v["params"].v["arguments"]
                                     ELSE Obj(<<>>)]
               /\ stdout' = stdout
               /\ pc' = "post"
        /\ (Handles("post") /\ IsNamedCall(request))
            => /\ http' = http
               /\ pc' = "read"
               /\ Len(stdout') = Len(stdout) + 1
               /\ LET a == Last(replies')
                  IN (a.kind = "response" /\ a.status_code = 200
                        /\ a.body.syntax = "ok" /\ a.body.value.t = "dict")
                      => /\ "error" \notin DOMAIN Last(stdout')
                         /\ Last(stdout').result =
                              [content |-> << [type |-> "text",
                                               text |-> IF "result" \in DOMAIN a.body.value.v
                                                        THEN a.body.value.v["result"]
                                                        ELSE ""] >>] ]_vars

C6_Witness ==
    /\ Answered /\ IsRequest(line) /\ line.value.v = [method |-> "tools/call", params |-> FullParams, id |-> 7]
    /\ Cardinality(Posts) = 1
    /\ Last(http).json = [tool |-> "analyze_serp", arguments |-> Obj([keyword |-> "x"])]
    /\ Last(replies) = Response(200, Json(Obj([result |-> "ok"])))
    /\ Last(stdout).result = [content |-> << [type |-> "text", text |-> "ok"] >>]

(* C7: when the backend call of tools/call fails (exception or a status    *)
(* other than 200), the frame is a result envelope, not an error envelope, *)
(* whose single text content is a JSON document with an "error" member     *)
(* holding the exception message or the HTTP status.                       *)
C7_CallFailure ==
    [][ (Handles("post") /\ Last(replies') \in Failures)
            => /\ Len(stdout') = Len(stdout) + 1
               /\ "result" \in DOMAIN Last(stdout')
               /\ "error" \notin DOMAIN Last(stdout')
               /\ Len(Last(stdout').result.content) = 1
               /\ Last(stdout').result.content[1].type = "text"
               /\ Last(stdout').result.content[1].text = FailureText(Last(replies')) ]_vars

C7_Witness ==
    /\ Answered /\ IsRequest(line) /\ MethodOf(line) = "tools/call"
    /\ Len(replies) = 1 /\ replies[1] = Response(500, NotJson)
    /\ "result" \in DOMAIN Last(stdout)
    /\ Last(stdout).result.content[1].text = "{\"error\": \"Backend error: 500\"}"

(* C8: a request whose method is none of initialize, resources/list,       *)
(* tools/list, tools/call, or that has no method, is answered by the       *)
(* -32601 "Method not found" error frame, and the loop reads on.           *)
C8_UnknownMethod ==
    [][ (Handles("dispatch") /\ request.t = "dict"
            /\ Get(request.v, "method", None) \notin KnownMethods)
            => /\ Len(stdout') = Len(stdout) + 1
               /\ "error" \in DOMAIN Last(stdout')
               /\ Last(stdout').error = [code |-> -32601, message |-> "Method not found"]
               /\ "result" \notin DOMAIN Last(stdout')
               /\ http' = http
               /\ tools' = tools
               /\ exit_status' = <<>>
               /\ pc' = "read" ]_vars

C8_Witness ==
    /\ Answered /\ Len(stdout) = 2
    /\ "error" \in DOMAIN stdout[1] /\ stdout[1].error.code = -32601
    /\ "result" \in DOMAIN stdout[2]

(* C9: without a credential (variable unset or empty) the process writes   *)
(* exactly one error frame and exits with a non-zero status before the     *)
(* loop: no line is read, nothing is dispatched, no HTTP call is made.     *)
C9_MissingCredential ==
    (env \in {None, ""} /\ pc # "start")
        => /\ pc = "exited"
           /\ exit_status # <<>> /\ exit_status[1] # 0
           /\ Len(stdout) = 1
           /\ "error" \in DOMAIN stdout[1] /\ "result" \notin DOMAIN stdout[1]
           /\ nlines = 0
           /\ line = [bytes |-> "none"]
           /\ request = [t |-> "none"]
           /\ http = <<>>

C9_Witness ==
    /\ env = None /\ pc = "exited" /\ exit_status = <<1>>
    /\ stdout = << [jsonrpc |-> "2.0",
                    error |-> [code |-> -32700, message |-> "SEOMCP_API_KEY not set"]] >>

(* C10: every frame written carries jsonrpc "2.0" and exactly one of       *)
(* result and error; every error has an integer code and a string message. *)
C10_FrameShape ==
    \A i \in DOMAIN stdout :
        /\ "jsonrpc" \in DOMAIN stdout[i]
        /\ stdout[i].jsonrpc = "2.0"
        /\ ("result" \in DOMAIN stdout[i]) # ("error" \in DOMAIN stdout[i])
        /\ "error" \in DOMAIN stdout[i]
             => /\ DOMAIN stdout[i].error = {"code", "message"}
                /\ stdout[i].error.code \in Int
                /\ stdout[i].error.message \in STRING

C10_Witness ==
    /\ Len(stdout) = 2
    /\ "result" \in DOMAIN stdout[1]
    /\ "error" \in DOMAIN stdout[2]
    /\ "id" \in DOMAIN stdout[1]

(* C11: every non-empty line read is answered by exactly one frame, and   *)
(* the frame of a request without id has no id.  Refuted: a line over the  *)
(* reader's limit ends the process without any frame.                      *)
C11_OneFramePerLine ==
    /\ (api_key # "" /\ pc \in {"read", "exited"}) => Len(stdout) = nlines
    /\ (Answered /\ IsRequest(line) /\ ~HasId(line)) => "id" \notin DOMAIN Last(stdout)

\* a is a 200 answer whose body is {"tools": {name: descriptor, ...}}, every
\* descriptor having name, description and inputSchema
WellFormedCatalog(a) ==
    /\ a.kind = "response" /\ a.status_code = 200
    /\ a.body.syntax = "ok"
    /\ a.body.value.t = "dict"
    /\ "tools" \in DOMAIN a.body.value.v
    /\ a.body.value.v["tools"].t = "dict"
    /\ \A i \in DOMAIN a.body.value.v["tools"].items :
           {"name", "description", "inputSchema"} \subseteq DOMAIN a.body.value.v["tools"].items[i].val

(* C12: the answer to GET /mcp/tools becomes the registry only when it is  *)
(* a 200 with a well-formed catalog; any other answer, a 200 with a        *)
(* malformed body included, makes the registry the six built-in tools.     *)
(* Refuted: a 200 body without tools, with tools that is no mapping or     *)
(* with an incomplete descriptor is adopted as the registry.               *)
C12_AdoptOnlyWellFormed ==
    [][ Handles("get")
            => tools' = IF WellFormedCatalog(Last(replies'))
                        THEN Last(replies').body.value.v["tools"]
                        ELSE FallbackTools ]_vars

(* C13: requests are handled one at a time: a line is read only when the  *)
(* frames of all earlier lines are written and no backend call is awaited; *)
(* at most one backend call is in flight, and only while its request is    *)
(* being handled; the k-th frame is written while the k-th line is the     *)
(* current one, so frames come in the order of their lines.                *)
C13_OneAtATime ==
    [][ /\ Len(http') - Len(replies') \in {0, 1}
        /\ (Len(http') > Len(replies')) <=> (pc' \in {"get", "post"})
        /\ (nlines' # nlines)
              => /\ pc = "read"
                 /\ nlines' = nlines + 1
                 /\ Len(stdout) = nlines
                 /\ Len(http) = Len(replies)
        /\ (pc # "start" /\ stdout' # stdout)
              => /\ Len(stdout') = Len(stdout) + 1
                 /\ SubSeq(stdout', 1, Len(stdout)) = stdout
                 /\ Len(stdout') = nlines' ]_vars

C13_Witness ==
    /\ pc = "read" /\ nlines = 2 /\ Len(stdout) = 2
    /\ Len(http) = 1 /\ Len(replies) = 1 /\ http[1].verb = "POST"
    /\ "error" \in DOMAIN stdout[1] /\ stdout[1].error.code = -32601
    /\ "id" \in DOMAIN stdout[1] /\ "id" \notin DOMAIN stdout[2]
    /\ "result" \in DOMAIN stdout[2] /\ "content" \in DOMAIN stdout[2].result

\* the registry holds something: `if self.tools` lets the cached value through
NonEmpty(r) ==
    \/ r.t = "dict" /\ Len(r.items) > 0
    \/ r.t = "list" /\ Len(r.v) > 0

(* C14: no backend call is repeated: handling a tools/call request issues  *)
(* exactly one POST /mcp/call and a registry load exactly one GET          *)
(* /mcp/tools; when the answer arrives, whatever it is, no further call is *)
(* issued, the frame is written and the loop reads on; a failed load has   *)
(* already fallen back, a failed call is already reported in the frame.    *)
C14_NoRetry ==
    [][ /\ (Handles("dispatch") /\ request.t = "dict"
              /\ Get(request.v, "method", None) = "tools/call"
              /\ Get(request.v, "params", Obj(<<>>)).t = "dict")
           => /\ Len(http') = Len(http) + 1
              /\ SubSeq(http', 1, Len(http)) = http
              /\ Last(http').verb = "POST"
              /\ Last(http').url = "https://api.seomcp.run/mcp/call"
              /\ pc' = "post"
        /\ (Handles("dispatch") /\ request.t = "dict"
              /\ Get(request.v, "method", None) \in {"initialize", "tools/list"}
              /\ ~NonEmpty(tools))
           => /\ Len(http') = Len(http) + 1
              /\ SubSeq(http', 1, Len(http)) = http
              /\ Last(http').verb = "GET"
              /\ Last(http').url = "https://api.seomcp.run/mcp/tools"
              /\ pc' = "get"
        /\ (pc = "get" /\ replies' # replies)
           => /\ http' = http
              /\ Len(stdout') = Len(stdout) + 1
              /\ pc' = "read"
              /\ Last(replies') \in Failures => tools' = FallbackTools
        /\ (pc = "post" /\ replies' # replies)
           => /\ http' = http
              /\ Len(stdout') = Len(stdout) + 1
              /\ pc' = "read"
              /\ Last(replies') \in Failures
                    => Last(stdout').result.content[1].text = FailureText(Last(replies'))
        /\ (pc \in {"start", "read", "get", "post", "exited"}) => http' = http ]_vars

C14_Witness ==
    /\ pc = "read" /\ nlines = 2 /\ Len(stdout) = 2
    /\ Len(http) = 2 /\ http[1].verb = "GET" /\ http[2].verb = "POST"
    /\ Len(replies) = 2 /\ replies[1] \in Failures /\ replies[2] \in Failures
    /\ tools = FallbackTools

\* str(e) of the exception the tools/list comprehension raises on registry r,
\* None when it raises nothing
RegistryFault(r) ==
    IF r.t = "list" THEN "'list' object has no attribute 'values'"
    ELSE IF \E i \in DOMAIN r.items : "name" \notin DOMAIN r.items[i].val THEN "'name'"
    ELSE IF \E i \in DOMAIN r.items : "description" \notin DOMAIN r.items[i].val THEN "'description'"
    ELSE IF \E i \in DOMAIN r.items : "inputSchema" \notin DOMAIN r.items[i].val THEN "'inputSchema'"
    ELSE None

\* a is a 200 answer whose JSON object has a tools member
HasTools(a) ==
    /\ a.kind = "response" /\ a.status_code = 200
    /\ a.body.syntax = "ok"
    /\ a.body.value.t = "dict"
    /\ "tools" \in DOMAIN a.body.value.v

\* main writes the -32603 frame with this message, and only it, and reads on
EmitsInternalError(message) ==
    /\ stdout' = Append(stdout, [jsonrpc |-> "2.0",
                                 error |-> [code |-> -32603, message |-> message]])
    /\ pc' = "read"
    /\ exit_status' = <<>>

(* C15: when dispatching a parsed request raises, main writes exactly one  *)
(* frame, {jsonrpc: "2.0", error: {code: -32603, message: str(e)}}, and    *)
(* goes back to reading; the registry stays as the dispatch left it: as it *)
(* was when the dispatch raised before any load, as the load assigned it   *)
(* when the dispatch raised after the load.                                *)
C15_DispatchException ==
    [][ /\ (Handles("dispatch") /\ request.t # "dict")
           => /\ EmitsInternalError("'" \o request.t \o "' object has no attribute 'get'")
              /\ tools' = tools /\ http' = http
        /\ (Handles("dispatch") /\ request.t = "dict"
              /\ Get(request.v, "method", None) = "tools/call"
              /\ Get(request.v, "params", Obj(<<>>)).t = "list")
           => /\ EmitsInternalError("'list' object has no attribute 'get'")
              /\ tools' = tools /\ http' = http
        /\ (Handles("dispatch") /\ request.t = "dict"
              /\ Get(request.v, "method", None) = "tools/list"
              /\ NonEmpty(tools) /\ RegistryFault(tools) # None)
           => /\ EmitsInternalError(RegistryFault(tools))
              /\ tools' = tools /\ http' = http
        /\ (pc = "get" /\ replies' # replies
              /\ request.v["method"] = "tools/list"
              /\ HasTools(Last(replies'))
              /\ RegistryFault(Last(replies').body.value.v["tools"]) # None)
           => /\ EmitsInternalError(RegistryFault(Last(replies').body.value.v["tools"]))
              /\ tools' = Last(replies').body.value.v["tools"]
              /\ http' = http ]_vars

C15_Witness ==
    /\ pc = "read" /\ nlines = 2 /\ Len(stdout) = 2 /\ Len(http) = 1
    /\ stdout[1] = [jsonrpc |-> "2.0", error |-> [code |-> -32603, message |-> "'description'"]]
    /\ "result" \in DOMAIN stdout[2]
    /\ tools = PartialCatalog

\* the frame just written answers `initialize` with the handshake
HandshakeWritten ==
    /\ Len(stdout') = Len(stdout) + 1
    /\ "error" \notin DOMAIN Last(stdout')
    /\ Last(stdout').result =
          [protocolVersion |-> "2024-11-05",
           capabilities |-> [tools |-> <<>>],
           serverInfo |-> [name |-> "seo-mcp-server", version |-> "0.1.0"]]

(* C16: `initialize` with an empty registry sends one GET to /mcp/tools;   *)
(* whatever the registry or the backend's answer, the frame answering      *)
(* `initialize` carries the fixed handshake result; and when tool          *)
(* discovery fails by timeout, transport error or non-200, the frame of    *)
(* the `initialize` or `tools/list` that caused it is a result, never an   *)
(* error (for `tools/list`, the listing of the six built-in tools).        *)
C16_InitializeHandshake ==
    [][ /\ (Handles("dispatch") /\ request.t = "dict"
              /\ Get(request.v, "method", None) = "initialize")
           => IF NonEmpty(tools)
              THEN http' = http /\ HandshakeWritten
              ELSE /\ http' = Append(http, [verb |-> "GET",
                                            url |-> BACKEND_URL \o "/mcp/tools",
                                            headers |-> [Authorization |-> "Bearer " \o api_key]])
                   /\ stdout' = stdout
        /\ (pc = "get" /\ replies' # replies /\ request.v["method"] = "initialize")
           => HandshakeWritten
        /\ (pc = "get" /\ replies' # replies /\ Last(replies') \in Failures)
           => /\ Len(stdout') = Len(stdout) + 1
              /\ "error" \notin DOMAIN Last(stdout')
              /\ "result" \in DOMAIN Last(stdout')
              /\ request.v["method"] = "tools/list"
                    => Names(Last(stdout').result.tools) = BuiltinNames ]_vars

C16_Witness ==
    /\ pc = "read" /\ nlines = 2 /\ Len(stdout) = 2
    /\ Len(http) = 1 /\ http[1].verb = "GET"
    /\ replies = <<Exception("ReadTimeout", "The read operation timed out")>>
    /\ "result" \in DOMAIN stdout[1] /\ "protocolVersion" \in DOMAIN stdout[1].result
    /\ "result" \in DOMAIN stdout[2] /\ "tools" \in DOMAIN stdout[2].result

(* C17: an empty read (readline() returning b"" at end of input) writes no *)
(* frame, dispatches nothing, sends nothing and does not end the loop: the *)
(* loop is at readline() again. Once the input has ended and the loop      *)
(* is at readline(), every later step is such an empty read, so the        *)
(* process never exits and never writes another frame.                     *)
C17_EmptyRead ==
    [][ (eof /\ pc = "read")
           => /\ line' = EmptyBytes
              /\ pc' = "read"
              /\ exit_status' = <<>>
              /\ eof'
              /\ UNCHANGED <<stdout, http, replies, request, tools, nlines>> ]_vars

C17_Witness ==
    /\ eof /\ pc = "read" /\ line = EmptyBytes
    /\ nlines = 1 /\ Len(stdout) = 1
    /\ exit_status = <<>>

\* the invocation l carries no identity: no Authorization header, a header
\* that is not a Bearer header, a token the verifier rejects, or claims
\* without a uid
Unauthenticated(l) ==
    \/ "Authorization" \notin DOMAIN l.req.headers
    \/ /\ "Authorization" \in DOMAIN l.req.headers
       /\ \/ Len(l.req.headers.Authorization) < 7
          \/ SubSeq(l.req.headers.Authorization, 1, 7) # <<"B", "e", "a", "r", "e", "r", " ">>
    \/ /\ l.verify # <<>>
       /\ l.verify[1].exc
       /\ l.verify[1].type \in {"InvalidIdTokenError", "ExpiredIdTokenError"}
    \/ /\ l.verify # <<>>
       /\ ~l.verify[1].exc
       /\ "uid" \notin DOMAIN l.verify[1].val

(* C18: an invocation of generate_api_key, list_api_keys or delete_api_key *)
(* whose Authorization header is missing or is not a Bearer header, or     *)
(* whose token the verifier rejects as invalid or decodes to claims with   *)
(* no uid, answers 401 with a JSON body holding an `error` member, makes   *)
(* no Firestore call and leaves the key store as it was; this holds for    *)
(* delete_api_key whether or not the request has an `id`.                  *)
C18_Unauthenticated ==
    [][ (last' # last /\ Unauthenticated(last'))
           => /\ last'.response.status = 401
              /\ last'.response.mimetype = "application/json"
              /\ "error" \in DOMAIN last'.response.body
              /\ last'.ops = <<>>
              /\ store' = store ]_vars

C18_Witness ==
    /\ last.fn = "delete_api_key"
    /\ "id" \notin DOMAIN last.req.args
    /\ last.verify = <<RaiseAs("InvalidIdTokenError", "Could not verify token signature")>>
    /\ last.response.status = 401
    /\ last.ops = <<>>
    /\ store["alice"] # {}

\* this step appends a GET to the calls issued
GetIssued == Len(http') > Len(http) /\ Last(http').verb = "GET"

(* C19: the registry changes, and a GET to /mcp/tools is issued, only      *)
(* while an `initialize` or `tools/list` request is handled. Handling      *)
(* `resources/list` or an unknown method issues no HTTP call and leaves    *)
(* the registry as it is. Handling `tools/call` (params an object) leaves  *)
(* the registry as it is and sends the POST to /mcp/call with the name     *)
(* from params, whatever the registry holds, empty or without that name.   *)
C19_OnlyLoadersTouchRegistry ==
    [][ /\ (tools' # tools \/ GetIssued)
           => /\ pc \in {"dispatch", "get"}
              /\ request.t = "dict"
              /\ Get(request.v, "method", None) \in {"initialize", "tools/list"}
        /\ (Handles("dispatch") /\ request.t = "dict"
              /\ Get(request.v, "method", None) \notin {"initialize", "tools/list", "tools/call"})
           => /\ http' = http /\ tools' = tools
              /\ pc' = "read" /\ Len(stdout') = Len(stdout) + 1
        /\ (Handles("dispatch") /\ request.t = "dict"
              /\ Get(request.v, "method", None) = "tools/call"
              /\ Get(request.v, "params", Obj(<<>>)).t = "dict")
           => /\ tools' = tools
              /\ Len(http') = Len(http) + 1
              /\ Last(http').verb = "POST"
              /\ Last(http').url = "https://api.seomcp.run/mcp/call"
              /\ Last(http').json.tool =
                    Get(Get(request.v, "params", Obj(<<>>)).v, "name", None)
              /\ pc' = "post"
        /\ (pc = "post" /\ replies' # replies)
           => /\ tools' = tools /\ http' = http ]_vars

C19_Witness ==
    /\ pc = "read" /\ nlines = 2 /\ Len(stdout) = 2
    /\ tools = Catalog(<<>>)
    /\ Len(http) = 1 /\ http[1].verb = "POST" /\ http[1].json.tool = "analyze_serp"
    /\ stdout[1] = [jsonrpc |-> "2.0", id |-> 7, result |-> [resources |-> <<>>]]
    /\ "result" \in DOMAIN stdout[2]

(* C20: once the registry is non-empty, no step changes it and no step     *)
(* issues a GET to /mcp/tools; so a GET is issued only while the registry  *)
(* is empty.                                                               *)
C20_LoadedRegistryIsFinal ==
    [][ /\ NonEmpty(tools) => (tools' = tools /\ ~GetIssued)
        /\ GetIssued => ~NonEmpty(tools) ]_vars

C20_Witness ==
    /\ pc = "read" /\ nlines = 2 /\ Len(stdout) = 2
    /\ tools = RemoteCatalog
    /\ Len(http) = 1 /\ http[1].verb = "GET"
    /\ "result" \in DOMAIN stdout[1] /\ "protocolVersion" \in DOMAIN stdout[1].result
    /\ "result" \in DOMAIN stdout[2] /\ "tools" \in DOMAIN stdout[2].result

====
